---------------------------- MODULE Spec2Model ----------------------------
(***************************************************************************)
(* The SLO reporter (tools/slo-reporter, src/unnamed/part_008): one run of *)
(* main, from the two Prometheus queries to the text or JSON report.       *)
(*                                                                         *)
(* float64 values are modelled as exact rationals n/d (kept in lowest      *)
(* terms, d > 0) together with the three IEEE-754 specials NaN, +Inf and   *)
(* -Inf, which the code can read from the backend.  Rounding of finite     *)
(* values to 53 bits is not modelled.  Strings that the code parses are    *)
(* sequences of one-character strings.                                     *)
(***************************************************************************)
EXTENDS Integers, Sequences, FiniteSets, TLC

\* -------------------------------------------------------------------------
\* Bounds of the model (not program constants)
\* -------------------------------------------------------------------------

\* Largest number of series in the result array of a backend answer.
MaxResults == 2

\* Largest number of elements in the "value" array of the first series.
MaxValueLen == 2

\* Largest wall-clock reading (time.Now) a run can take.
MaxClock == 1
\* The clock of a pending request is observed every TickSeconds seconds.
TickSeconds == 10
\* The createJob requests of a run of the API, and the ids the API's clock
\* can give them (two requests that read the same nanosecond share one).
MaxHandlers == 2
MaxJobIds == 2

\* -------------------------------------------------------------------------
\* float64
\* -------------------------------------------------------------------------

Abs(x) == IF x < 0 THEN -x ELSE x

Gcd[a \in Nat, b \in Nat] == IF b = 0 THEN a ELSE Gcd[b, a % b]

RECURSIVE Pow10(_)
Pow10(k) == IF k = 0 THEN 1 ELSE 10 * Pow10(k - 1)

NaN == [k |-> "nan", n |-> 0, d |-> 1]
PosInf == [k |-> "inf", n |-> 1, d |-> 1]
NegInf == [k |-> "inf", n |-> -1, d |-> 1]

\* The finite value n/d (d # 0), in lowest terms with a positive denominator.
Fin(n, d) ==
    LET g == Gcd[Abs(n), Abs(d)]
        s == IF d < 0 THEN -1 ELSE 1
    IN  [k |-> "fin", n |-> (s * n) \div g, d |-> Abs(d) \div g]

\* The float64 values.
Floats == [k : {"fin", "nan", "inf"}, n : Int, d : Int]

IsNaN(x) == x.k = "nan"
IsInf(x) == x.k = "inf"
IsFinite(x) == x.k = "fin"

Sign(x) == IF x.n > 0 THEN 1 ELSE IF x.n < 0 THEN -1 ELSE 0

FNeg[x \in Floats] ==
    CASE IsNaN(x) -> NaN
      [] IsInf(x) -> IF x.n > 0 THEN NegInf ELSE PosInf
      [] OTHER -> Fin(-x.n, x.d)

FAdd[x \in Floats, y \in Floats] ==
    CASE IsNaN(x) \/ IsNaN(y) -> NaN
      [] IsInf(x) /\ IsInf(y) -> IF x.n = y.n THEN x ELSE NaN
      [] IsInf(x) -> x
      [] IsInf(y) -> y
      [] OTHER -> Fin(x.n * y.d + y.n * x.d, x.d * y.d)

FSub[x \in Floats, y \in Floats] == FAdd[x, FNeg[y]]

FMul[x \in Floats, y \in Floats] ==
    CASE IsNaN(x) \/ IsNaN(y) -> NaN
      [] IsInf(x) \/ IsInf(y) ->
            IF Sign(x) * Sign(y) = 0 THEN NaN
            ELSE IF Sign(x) * Sign(y) > 0 THEN PosInf ELSE NegInf
      [] OTHER -> Fin(x.n * y.n, x.d * y.d)

FDiv[x \in Floats, y \in Floats] ==
    CASE IsNaN(x) \/ IsNaN(y) -> NaN
      [] IsInf(x) /\ IsInf(y) -> NaN
      [] IsInf(x) -> IF Sign(x) * (IF y.n < 0 THEN -1 ELSE 1) > 0
                     THEN PosInf ELSE NegInf
      [] IsInf(y) -> Fin(0, 1)
      [] y.n = 0 -> IF x.n = 0 THEN NaN
                    ELSE IF x.n > 0 THEN PosInf ELSE NegInf
      [] OTHER -> Fin(x.n * y.d, x.d * y.n)

\* Comparisons: every comparison with NaN is false.  (The operations are
\* functions, so that an operand is evaluated once.)
FLt[x \in Floats, y \in Floats] ==
    CASE IsNaN(x) \/ IsNaN(y) -> FALSE
      [] IsInf(x) /\ IsInf(y) -> x.n < y.n
      [] IsInf(x) -> x.n < 0
      [] IsInf(y) -> y.n > 0
      [] OTHER -> x.n * y.d < y.n * x.d

FEq[x \in Floats, y \in Floats] ==
    CASE IsNaN(x) \/ IsNaN(y) -> FALSE
      [] OTHER -> x = y

FGt[x \in Floats, y \in Floats] == FLt[y, x]
FLe[x \in Floats, y \in Floats] == FLt[x, y] \/ FEq[x, y]
FGe[x \in Floats, y \in Floats] == FLe[y, x]

\* -------------------------------------------------------------------------
\* fmt.Sscanf(valueStr, "%f", &value)
\* -------------------------------------------------------------------------

Spaces == {" "}
Digits == {"0", "1", "2", "3", "4", "5", "6", "7", "8", "9"}

DigitVal(c) ==
    CASE c = "0" -> 0 [] c = "1" -> 1 [] c = "2" -> 2 [] c = "3" -> 3
      [] c = "4" -> 4 [] c = "5" -> 5 [] c = "6" -> 6 [] c = "7" -> 7
      [] c = "8" -> 8 [] c = "9" -> 9

\* s.accept(set) at position i: the next character is there and in the set.
Accepts(s, i, set) == i <= Len(s) /\ s[i] \in set

\* for s.accept(set) {}: the first position at or after i not in the set.
RECURSIVE SkipWhile(_, _, _)
SkipWhile(s, i, set) ==
    IF Accepts(s, i, set) THEN SkipWhile(s, i + 1, set) ELSE i

\* The number written by the decimal digits s[i], ..., s[j-1].
RECURSIVE DigitsValue(_, _, _)
DigitsValue(s, i, j) ==
    IF i >= j THEN 0 ELSE DigitsValue(s, i, j - 1) * 10 + DigitVal(s[j - 1])

ScanError == [ok |-> FALSE, v |-> Fin(0, 1)]
Scanned(x) == [ok |-> TRUE, v |-> x]

\* The decimal part of the token: digits, "." digits, exponent; then
\* strconv.ParseFloat on what was accepted.  i is the position after the
\* sign.  Hexadecimal mantissas, "_" separators and "p" exponents are not
\* modelled (no modelled backend answer holds one).
ScanDecimal(s, i, neg) ==
    LET endInt == SkipWhile(s, i, Digits)
        hasDot == Accepts(s, endInt, {"."})
        fracAt == endInt + 1
        endFrac == IF hasDot THEN SkipWhile(s, fracAt, Digits) ELSE endInt
        nInt == endInt - i
        nFrac == IF hasDot THEN endFrac - fracAt ELSE 0
        hasExp == Accepts(s, endFrac, {"e", "E"})
        expNeg == hasExp /\ Accepts(s, endFrac + 1, {"-"})
        expAt == IF hasExp /\ Accepts(s, endFrac + 1, {"+", "-"})
                 THEN endFrac + 2 ELSE endFrac + 1
        endExp == IF hasExp THEN SkipWhile(s, expAt, Digits) ELSE endFrac
        nExp == IF hasExp THEN endExp - expAt ELSE 0
        exp == IF hasExp THEN DigitsValue(s, expAt, endExp) ELSE 0
        mant == DigitsValue(s, i, endInt) * Pow10(nFrac)
                  + (IF hasDot THEN DigitsValue(s, fracAt, endFrac) ELSE 0)
        signed == IF neg THEN -mant ELSE mant
    IN  IF nInt + nFrac = 0 \/ (hasExp /\ nExp = 0) THEN ScanError
        ELSE IF expNeg THEN Scanned(Fin(signed, Pow10(nFrac) * Pow10(exp)))
        ELSE Scanned(Fin(signed * Pow10(exp), Pow10(nFrac)))

\* The verb %f: leading spaces are skipped, the longest float token is read
\* (NaN and signed Inf included, in any letter case) and converted; what
\* follows the token is left unread without error.
ScanFloat(s) ==
    LET i == SkipWhile(s, 1, Spaces)
        neg == Accepts(s, i, {"-"})
        j == IF Accepts(s, i, {"+", "-"}) THEN i + 1 ELSE i
    IN  IF i > Len(s) THEN ScanError
        ELSE IF Accepts(s, i, {"n", "N"})
        THEN IF Accepts(s, i + 1, {"a", "A"}) /\ Accepts(s, i + 2, {"n", "N"})
             THEN Scanned(NaN) ELSE ScanError
        ELSE IF Accepts(s, j, {"i", "I"})
        THEN IF Accepts(s, j + 1, {"n", "N"}) /\ Accepts(s, j + 2, {"f", "F"})
             THEN Scanned(IF neg THEN NegInf ELSE PosInf) ELSE ScanError
        ELSE ScanDecimal(s, j, neg)

\* -------------------------------------------------------------------------
\* Answers of the Prometheus backend to GET /api/v1/query
\* -------------------------------------------------------------------------

\* The value strings a backend answer may carry as the sample value.
ValueStrings ==
    { <<"0", ".", "9", "9", "9", "5">>,
      <<"0", ".", "9", "9", "9", "2">>,
      <<"0", ".", "9", "9", "9", "1">>,
      <<"0", ".", "9", "9", "9">>,
      <<"0", ".", "9", "9", "8", "9", "9">>,
      <<"0", ".", "9", "8">>,
      <<"1">>,
      <<"1", ".", "0", "0", "0", "5">>,
      <<"-", "0", ".", "5">>,
      <<"0", ".", "4", "5">>,
      <<"0", ".", "6">>,
      <<"0", ".", "7">>,
      <<"0", ".", "7", "2">>,
      <<"0", ".", "7", "5">>,
      <<"5", "e", "-", "1">>,
      <<" ", "0", ".", "9">>,
      <<"1", ".", "5", "x">>,
      <<"N", "a", "N">>,
      <<"+", "I", "n", "f">>,
      <<"-", "I", "n", "f">>,
      <<"a", "b", "c">>,
      <<".">>,
      <<>> }

\* A decoded JSON element of a "value" array ([]interface{}).
Timestamp == [t |-> "number", s |-> <<>>]
Elems ==
    {Timestamp, [t |-> "null", s |-> <<>>]}
        \cup {[t |-> "string", s |-> v] : v \in ValueStrings}

\* The "value" arrays of n elements: Prometheus sends [timestamp, value].
ValueArraysOfLen(n) ==
    IF n < 2 THEN {[i \in 1..n |-> Timestamp]}
    ELSE {[i \in 1..n |-> IF i = 2 THEN e ELSE Timestamp] : e \in Elems}

ValueArrays == UNION {ValueArraysOfLen(n) : n \in 0..MaxValueLen}

\* The series after the first one are never read by the code.
OtherSeries ==
    [value |-> <<Timestamp, [t |-> "string", s |-> <<"0", ".", "5">>]>>]

ResultArrays ==
    {<<>>} \cup
    {[i \in 1..n |-> IF i = 1 THEN [value |-> a] ELSE OtherSeries] :
        a \in ValueArrays, n \in 1..MaxResults}

\* transport: whether client.Get returned a response at all; code: the HTTP
\* status; decodable: whether the body decodes into the result struct;
\* status and result: the decoded fields.
Response(tr, code, dec, st, res) ==
    [transport |-> tr, code |-> code, decodable |-> dec, status |-> st,
     result |-> res]

Responses ==
    {Response("error", 0, FALSE, "", <<>>)}
        \cup {Response("ok", c, FALSE, "", <<>>) : c \in {400, 503}}
        \cup {Response("ok", 200, FALSE, "", <<>>)}
        \cup {Response("ok", 200, TRUE, "error", <<>>)}
        \cup {Response("ok", 200, TRUE, "success", r) : r \in ResultArrays}

\* http.Client{Timeout: 30 * time.Second}, in seconds.  The limit covers
\* the whole exchange: connecting, the response headers and reading the body.
clientTimeout == 30

\* A client without a time limit.
TimedOut_Never(elapsed) == FALSE

\* Whether the client's timer has fired, elapsed seconds into the exchange.
TimedOut(elapsed) == elapsed >= clientTimeout

\* What the client hands to Query when its timer fires: client.Get fails if
\* no response headers arrived, and otherwise the body read is cut short.
TimeoutResponse == Response("timeout", 0, FALSE, "", <<>>)
TimedOutResponses ==
    {TimeoutResponse}
        \cup {Response("ok", c, FALSE, "", <<>>) : c \in {200, 400, 503}}

\* The ends an exchange can have elapsed seconds after its start.
Answers(elapsed) ==
    IF TimedOut(elapsed) THEN TimedOutResponses ELSE Responses

\* -------------------------------------------------------------------------
\* PrometheusClient.Query
\* -------------------------------------------------------------------------

Value(x) == [kind |-> "value", v |-> x, msg |-> <<>>, code |-> 0]
Error(m, c) == [kind |-> "error", v |-> Fin(0, 1), msg |-> m, code |-> c]
Panic(m) == [kind |-> "panic", v |-> Fin(0, 1), msg |-> m, code |-> 0]

\* A slip of Query: an empty result array read as the value 0.
QueryResult_ZeroOnNoData(result) ==
    IF Len(result) = 0
    THEN Value(Fin(0, 1))
    ELSE LET value == result[1].value
         IN  IF Len(value) < 2
             THEN Panic(<<"index out of range [1]">>)
             ELSE IF value[2].t # "string"
             THEN Error(<<"invalid value format">>, 0)
             ELSE LET scan == ScanFloat(value[2].s)
                  IN  IF ~scan.ok
                      THEN Error(<<"failed to parse value">>, 0)
                      ELSE Value(scan.v)

\* Query on a decoded "success" answer: the value of the first series.
\* Indexing Value[1] of an array of fewer than two elements is a run-time
\* panic (index out of range).
QueryResult(result) ==
    IF Len(result) = 0
    THEN Error(<<"no data returned from query">>, 0)
    ELSE LET value == result[1].value
         IN  IF Len(value) < 2
             THEN Panic(<<"index out of range [1]">>)
             ELSE IF value[2].t # "string"
             THEN Error(<<"invalid value format">>, 0)
             ELSE LET scan == ScanFloat(value[2].s)
                  IN  IF ~scan.ok
                      THEN Error(<<"failed to parse value">>, 0)
                      ELSE Value(scan.v)

\* A Query that reports a rejected request like an unreachable backend.
Query_RejectedAsUnreachable(resp) ==
    IF resp.transport # "ok" \/ resp.code # 200
    THEN Error(<<"failed to query Prometheus">>, 0)
    ELSE IF ~resp.decodable
    THEN Error(<<"failed to decode response">>, 0)
    ELSE IF resp.status # "success"
    THEN Error(<<"Prometheus query failed">>, 0)
    ELSE QueryResult(resp.result)

\* What one call of Query ends with for the backend answer resp: a value,
\* an error, or a run-time panic.
Query(resp) ==
    IF resp.transport # "ok"
    THEN Error(<<"failed to query Prometheus">>, 0)
    ELSE IF resp.code # 200
    THEN Error(<<"Prometheus returned status">>, resp.code)
    ELSE IF ~resp.decodable
    THEN Error(<<"failed to decode response">>, 0)
    ELSE IF resp.status # "success"
    THEN Error(<<"Prometheus query failed">>, 0)
    ELSE QueryResult(resp.result)

\* -------------------------------------------------------------------------
\* SLO targets and the two evaluators
\* -------------------------------------------------------------------------

availabilityTarget == Fin(999, 1000)
latencyTargetP95 == Fin(1, 2)
windowDays == 30

One == Fin(1, 1)

SLOReport(sli, cur, target, budget, spent, left, burn, status) ==
    [SLI |-> sli, CurrentValue |-> cur, Target |-> target,
     ErrorBudget |-> budget, ErrorBudgetSpent |-> spent,
     ErrorBudgetLeft |-> left, BurnRate |-> burn, Status |-> status]

\* What a calculate function returns: a report, or the wrapped error; a
\* panic inside Query unwinds through it.
Report(r) == [kind |-> "report", report |-> r, err |-> <<>>, code |-> 0]
Failed(kind, err, code) ==
    [kind |-> kind, report |-> <<>>, err |-> err, code |-> code]

\* A slip of the warning threshold: 0.9 for 0.8.
availabilityStatus_WarnAbove09(errorBudgetSpent) ==
    LET status == IF FGt[errorBudgetSpent, Fin(9, 10)]
                  THEN "Warning" ELSE "Healthy"
    IN  IF FGe[errorBudgetSpent, One] THEN "Breached" ELSE status

\* The status of the availability SLO from its spent budget.
availabilityStatus(errorBudgetSpent) ==
    LET status == IF FGt[errorBudgetSpent, Fin(8, 10)]
                  THEN "Warning" ELSE "Healthy"
    IN  IF FGe[errorBudgetSpent, One] THEN "Breached" ELSE status

\* An evaluator that clamps the measurement into [0, 1] first.
availabilityEvaluation_Clamped(currentAvailability) ==
    LET clamped == IF FGt[currentAvailability, One] THEN One
                   ELSE IF FLt[currentAvailability, Fin(0, 1)] THEN Fin(0, 1)
                   ELSE currentAvailability
        errorRate == FSub[One, clamped]
        errorBudget == FSub[One, availabilityTarget]
        errorBudgetSpent == FDiv[errorRate, errorBudget]
        errorBudgetLeft == FSub[One, errorBudgetSpent]
        burnRate == FDiv[errorRate, errorBudget]
    IN  SLOReport("Availability", clamped, availabilityTarget,
                  errorBudget, errorBudgetSpent, errorBudgetLeft, burnRate,
                  availabilityStatus(errorBudgetSpent))

\* A slip of the error rate: the deviation from the target, not from 1.
availabilityEvaluation_FromTarget(currentAvailability) ==
    LET errorRate == FSub[availabilityTarget, currentAvailability]
        errorBudget == FSub[One, availabilityTarget]
        errorBudgetSpent == FDiv[errorRate, errorBudget]
        errorBudgetLeft == FSub[One, errorBudgetSpent]
        burnRate == FDiv[errorRate, errorBudget]
    IN  SLOReport("Availability", currentAvailability, availabilityTarget,
                  errorBudget, errorBudgetSpent, errorBudgetLeft, burnRate,
                  availabilityStatus(errorBudgetSpent))

\* The evaluation of a measured availability.
availabilityEvaluation(currentAvailability) ==
    LET errorRate == FSub[One, currentAvailability]
        errorBudget == FSub[One, availabilityTarget]
        errorBudgetSpent == FDiv[errorRate, errorBudget]
        errorBudgetLeft == FSub[One, errorBudgetSpent]
        burnRate == FDiv[errorRate, errorBudget]
    IN  SLOReport("Availability", currentAvailability, availabilityTarget,
                  errorBudget, errorBudgetSpent, errorBudgetLeft, burnRate,
                  availabilityStatus(errorBudgetSpent))

calculateAvailabilitySLO(resp) ==
    LET q == Query(resp)
    IN  IF q.kind = "value" THEN Report(availabilityEvaluation(q.v))
        ELSE IF q.kind = "error"
        THEN Failed("error", <<"failed to query availability">> \o q.msg,
                    q.code)
        ELSE Failed("panic", q.msg, 0)

\* The status of the latency SLO from its spent budget.
latencyStatus(errorBudgetSpent) ==
    LET status == IF FGt[errorBudgetSpent, Fin(8, 10)]
                  THEN "Warning" ELSE "Healthy"
    IN  IF FGe[errorBudgetSpent, One] THEN "Breached" ELSE status

\* A slip of the estimate: no cap at the error budget.
meetingSLO_NoCap(currentLatency) ==
    IF FGt[currentLatency, latencyTargetP95]
    THEN LET excessRatio == FDiv[FSub[currentLatency, latencyTargetP95],
                                 latencyTargetP95]
             violationRate == FMul[excessRatio, Fin(1, 10)]
         IN  FSub[One, violationRate]
    ELSE One

\* The estimated share of requests meeting the latency target.
meetingSLO(currentLatency) ==
    IF FGt[currentLatency, latencyTargetP95]
    THEN LET excessRatio == FDiv[FSub[currentLatency, latencyTargetP95],
                                 latencyTargetP95]
             estimate == FMul[excessRatio, Fin(1, 10)]
             violationRate == IF FGt[estimate, Fin(5, 100)]
                              THEN Fin(5, 100) ELSE estimate
         IN  FSub[One, violationRate]
    ELSE One

\* A slip of the burn rate: the spent budget spread over the window's days.
latencyEvaluation_BurnPerDay(currentLatency) ==
    LET errorBudget == Fin(5, 100)
        errorBudgetSpent == FDiv[FSub[One, meetingSLO(currentLatency)],
                                 errorBudget]
        errorBudgetLeft == FSub[One, errorBudgetSpent]
        burnRate == FDiv[errorBudgetSpent, Fin(windowDays, 1)]
    IN  SLOReport("Latency (p95)", currentLatency, latencyTargetP95,
                  errorBudget, errorBudgetSpent, errorBudgetLeft, burnRate,
                  latencyStatus(errorBudgetSpent))

\* The evaluation of a measured p95 latency.
latencyEvaluation(currentLatency) ==
    LET errorBudget == Fin(5, 100)
        errorBudgetSpent == FDiv[FSub[One, meetingSLO(currentLatency)],
                                 errorBudget]
        errorBudgetLeft == FSub[One, errorBudgetSpent]
        burnRate == FDiv[FSub[One, meetingSLO(currentLatency)], errorBudget]
    IN  SLOReport("Latency (p95)", currentLatency, latencyTargetP95,
                  errorBudget, errorBudgetSpent, errorBudgetLeft, burnRate,
                  latencyStatus(errorBudgetSpent))

calculateLatencySLO(resp) ==
    LET q == Query(resp)
    IN  IF q.kind = "value" THEN Report(latencyEvaluation(q.v))
        ELSE IF q.kind = "error"
        THEN Failed("error", <<"failed to query latency">> \o q.msg, q.code)
        ELSE Failed("panic", q.msg, 0)

\* -------------------------------------------------------------------------
\* Output: printReport and json.Encoder.Encode
\* -------------------------------------------------------------------------

\* fmt's %.<k>f: NaN and the infinities print as such; a finite value is
\* rounded to k decimals, ties to even.
Rounded[x \in Floats, k \in Nat] ==
    IF ~IsFinite(x) THEN x
    ELSE LET scaled == x.n * Pow10(k)
             q == scaled \div x.d
             r == scaled - q * x.d
             rounded == IF 2 * r > x.d THEN q + 1
                        ELSE IF 2 * r = x.d THEN q + (q % 2)
                        ELSE q
         IN  Fin(rounded, Pow10(k))

\* fmt.Printf("%.<k>f", x)
FormatFixed(x, k) == Rounded[x, k]

\* A slip of the formula: the window multiplied by the burn rate.
daysUntilExhaustion_Times(report) ==
    FMul[Fin(windowDays, 1), report.BurnRate]

\* daysUntilExhaustion := windowDays / report.BurnRate
daysUntilExhaustion(report) ==
    FDiv[Fin(windowDays, 1), report.BurnRate]

\* A slip of the threshold: the line is printed only above twice the rate.
projectedExhaustion_AboveTwo(report) ==
    IF FGt[report.BurnRate, Fin(2, 1)]
    THEN <<FormatFixed(daysUntilExhaustion(report), 0)>>
    ELSE <<>>

\* A slip of the comparison: >= for >.
projectedExhaustion_AtOne(report) ==
    IF FGe[report.BurnRate, One]
    THEN <<FormatFixed(daysUntilExhaustion(report), 0)>>
    ELSE <<>>

\* The "exhausted in ~N days" lines printReport writes for one report:
\* one when the burn rate is above 1.0, else none.
projectedExhaustion(report) ==
    IF FGt[report.BurnRate, One]
    THEN <<FormatFixed(daysUntilExhaustion(report), 0)>>
    ELSE <<>>

\* The lines printReport writes for one report.
TextBlock(report) ==
    [kind |-> "text",
     SLO |-> report.SLI,
     Status |-> report.Status,
     CurrentValue |-> FormatFixed(report.CurrentValue, 4),
     Target |-> FormatFixed(report.Target, 4),
     Current |-> IF report.SLI = "Availability"
                 THEN FormatFixed(FMul[report.CurrentValue, Fin(100, 1)], 2)
                 ELSE FormatFixed(FMul[report.CurrentValue, Fin(1000, 1)], 0),
     TargetDetail |-> IF report.SLI = "Availability"
                 THEN FormatFixed(FMul[report.Target, Fin(100, 1)], 2)
                 ELSE FormatFixed(FMul[report.Target, Fin(1000, 1)], 0),
     TotalBudget |-> FormatFixed(FMul[report.ErrorBudget, Fin(100, 1)], 2),
     BudgetSpent |->
         FormatFixed(FMul[report.ErrorBudgetSpent, Fin(100, 1)], 2),
     BudgetLeft |->
         FormatFixed(FMul[report.ErrorBudgetLeft, Fin(100, 1)], 2),
     BurnRate |-> FormatFixed(report.BurnRate, 2),
     Exhaustion |-> projectedExhaustion(report)]

\* A slip of the loop: the reports printed last to first.
printReport_Reversed(reports, now) ==
    <<[kind |-> "header", Window |-> windowDays, Generated |-> now]>>
        \o [i \in 1..Len(reports) |->
               TextBlock(reports[Len(reports) + 1 - i])]

\* What printReport writes to stdout: the header (window and generation
\* time), then one block per report in the order of the slice.
printReport(reports, now) ==
    <<[kind |-> "header", Window |-> windowDays, Generated |-> now]>>
        \o [i \in 1..Len(reports) |-> TextBlock(reports[i])]

\* encoding/json refuses NaN and the infinities (UnsupportedValueError).
FloatFields(report) ==
    {report.CurrentValue, report.Target, report.ErrorBudget,
     report.ErrorBudgetSpent, report.ErrorBudgetLeft, report.BurnRate}

JsonEncodable(reports) ==
    \A i \in 1..Len(reports) : \A x \in FloatFields(reports[i]) : IsFinite(x)

\* The JSON object of one report: the struct has no json tags, so the keys
\* are the Go field names.
JsonObject(report) ==
    [kind |-> "json",
     obj |-> [SLI |-> report.SLI,
              CurrentValue |-> report.CurrentValue,
              Target |-> report.Target,
              ErrorBudget |-> report.ErrorBudget,
              ErrorBudgetSpent |-> report.ErrorBudgetSpent,
              ErrorBudgetLeft |-> report.ErrorBudgetLeft,
              BurnRate |-> report.BurnRate,
              Status |-> report.Status]]

\* What encoder.Encode(reports) writes: the whole array, or nothing when a
\* value cannot be encoded.
jsonEncode(reports) ==
    IF JsonEncodable(reports)
    THEN [err |-> FALSE,
          out |-> [i \in 1..Len(reports) |-> JsonObject(reports[i])]]
    ELSE [err |-> TRUE, out |-> <<>>]

\* -------------------------------------------------------------------------
\* One run of main
\* -------------------------------------------------------------------------

VARIABLES
    pc,         \* where main is: "availability", "latency", "output", "exited"
    output,     \* the -output flag
    reports,    \* the reports calculated so far, in the order of the slice
    requests,   \* the queries issued: the answer and what Query ended with
    stdout,     \* what was written to standard output
    stderr,     \* the lines written to standard error
    exitCode,   \* the exit status of the process once it has exited
    elapsed,    \* seconds the request in flight has been waiting
    ctxDone,    \* whether the ctx handed to the calculations is cancelled
    jobs,       \* the jobs table: the status of each id's row, or "none"
    handlers,   \* the createJob requests of the API: position and outcome
    nats,       \* the messages published on subject "jobs", not yet delivered
    worker,     \* the worker's subscription callback: idle, or in processJob
    natsMessagesReceived,   \* nats_messages_received_total
    jobsProcessed,          \* jobs_processed_total by result
    jobLatency,             \* observations of job_processing_duration_seconds
    processedLog            \* ids logged as "job processed successfully"

jobVars == <<jobs, handlers, nats, worker, natsMessagesReceived,
             jobsProcessed, jobLatency, processedLog>>

reporterVars == <<pc, output, reports, requests, stdout, stderr, exitCode,
                  elapsed, ctxDone>>

vars == <<pc, output, reports, requests, stdout, stderr, exitCode, elapsed,
          ctxDone, jobs, handlers, nats, worker, natsMessagesReceived,
          jobsProcessed, jobLatency, processedLog>>

JobIds == 1..MaxJobIds
Handlers == 1..MaxHandlers

\* The API and the worker have just started: no rows, no requests, no
\* messages, all counters 0.
JobsInit ==
    /\ jobs = [id \in JobIds |-> "none"]
    /\ handlers = [h \in Handlers |->
                     [pc |-> "idle", id |-> 0, inserted |-> FALSE,
                      published |-> FALSE, answer |-> 0]]
    /\ nats = <<>>
    /\ worker = [pc |-> "idle", id |-> 0]
    /\ natsMessagesReceived = 0
    /\ jobsProcessed = [ok |-> 0, error |-> 0]
    /\ jobLatency = 0
    /\ processedLog = {}

Init ==
    /\ pc = "availability"
    /\ output \in {"text", "json"}
    /\ reports = <<>>
    /\ requests = <<>>
    /\ stdout = <<>>
    /\ stderr = <<>>
    /\ exitCode = 0
    /\ elapsed = 0
    /\ ctxDone = FALSE
    /\ JobsInit

Request(query, resp) ==
    [query |-> query, resp |-> resp, outcome |-> Query(resp)]

\* A line on standard error: main's prefix, then the error chain.
ErrorLine(prefix, r) == [msg |-> <<prefix>> \o r.err, code |-> r.code]

\* The Go runtime's report of an unrecovered panic; the process exits 2.
PanicLine(r) == [msg |-> <<"panic: runtime error">> \o r.err, code |-> 0]

\* Time passes while client.Get (or the body read) waits for the backend;
\* the timer is not consulted again once it has fired.
Tick ==
    /\ UNCHANGED jobVars
    /\ pc \in {"availability", "latency"}
    /\ elapsed < clientTimeout
    /\ elapsed' = IF elapsed + TickSeconds < clientTimeout
                  THEN elapsed + TickSeconds ELSE clientTimeout
    /\ UNCHANGED <<pc, output, reports, requests, stdout, stderr, exitCode,
                   ctxDone>>

\* A slip of main: the availability error is printed and main goes on to
\* the latency measurement.
MainAvailability_ContinueOnError ==
    /\ UNCHANGED jobVars
    /\ pc = "availability"
    /\ \E resp \in Answers(elapsed) :
        \E r \in {calculateAvailabilitySLO(resp)} :
            /\ requests' = Append(requests, Request("availability", resp))
            /\ IF r.kind = "report"
               THEN /\ reports' = Append(reports, r.report)
                    /\ pc' = "latency"
                    /\ UNCHANGED <<stderr, exitCode>>
               ELSE /\ stderr' = Append(stderr,
                          IF r.kind = "error"
                          THEN ErrorLine("Error calculating availability SLO", r)
                          ELSE PanicLine(r))
                    /\ exitCode' = IF r.kind = "error" THEN 1 ELSE 2
                    /\ pc' = IF r.kind = "error" THEN "latency" ELSE "exited"
                    /\ UNCHANGED reports
    /\ elapsed' = 0
    /\ UNCHANGED <<output, stdout, ctxDone>>

\* availabilityReport, err := calculateAvailabilitySLO(ctx, client)
\* (r ranges over the one result of the call, so it is computed once.)
MainAvailability ==
    /\ UNCHANGED jobVars
    /\ pc = "availability"
    /\ \E resp \in Answers(elapsed) :
        \E r \in {calculateAvailabilitySLO(resp)} :
            /\ requests' = Append(requests, Request("availability", resp))
            /\ IF r.kind = "report"
               THEN /\ reports' = Append(reports, r.report)
                    /\ pc' = "latency"
                    /\ UNCHANGED <<stderr, exitCode>>
               ELSE /\ stderr' = Append(stderr,
                          IF r.kind = "error"
                          THEN ErrorLine("Error calculating availability SLO", r)
                          ELSE PanicLine(r))
                    /\ exitCode' = IF r.kind = "error" THEN 1 ELSE 2
                    /\ pc' = "exited"
                    /\ UNCHANGED reports
    /\ elapsed' = 0
    /\ UNCHANGED <<output, stdout, ctxDone>>

\* A slip of main: a failed latency measurement still prints what there is.
MainLatency_PartialReport ==
    /\ UNCHANGED jobVars
    /\ pc = "latency"
    /\ \E resp \in Answers(elapsed) :
        \E r \in {calculateLatencySLO(resp)} :
            /\ requests' = Append(requests, Request("latency", resp))
            /\ IF r.kind = "report"
               THEN /\ reports' = Append(reports, r.report)
                    /\ pc' = "output"
                    /\ UNCHANGED <<stdout, stderr, exitCode>>
               ELSE /\ stderr' = Append(stderr,
                          IF r.kind = "error"
                          THEN ErrorLine("Error calculating latency SLO", r)
                          ELSE PanicLine(r))
                    /\ stdout' = IF r.kind = "error"
                                 THEN printReport(reports, 0) ELSE stdout
                    /\ exitCode' = IF r.kind = "error" THEN 1 ELSE 2
                    /\ pc' = "exited"
                    /\ UNCHANGED reports
    /\ elapsed' = 0
    /\ UNCHANGED <<output, ctxDone>>

\* A slip of main: the latency error is printed but main returns normally.
MainLatency_ExitZero ==
    /\ UNCHANGED jobVars
    /\ pc = "latency"
    /\ \E resp \in Answers(elapsed) :
        \E r \in {calculateLatencySLO(resp)} :
            /\ requests' = Append(requests, Request("latency", resp))
            /\ IF r.kind = "report"
               THEN /\ reports' = Append(reports, r.report)
                    /\ pc' = "output"
                    /\ UNCHANGED <<stderr, exitCode>>
               ELSE /\ stderr' = Append(stderr,
                          IF r.kind = "error"
                          THEN ErrorLine("Error calculating latency SLO", r)
                          ELSE PanicLine(r))
                    /\ exitCode' = IF r.kind = "error" THEN 0 ELSE 2
                    /\ pc' = "exited"
                    /\ UNCHANGED reports
    /\ elapsed' = 0
    /\ UNCHANGED <<output, stdout, ctxDone>>

\* An evaluator with hidden state: after a breached availability the
\* latency Evaluation is never better than Warning.
MainLatency_CarryOver ==
    /\ UNCHANGED jobVars
    /\ pc = "latency"
    /\ \E resp \in Answers(elapsed) :
        \E r \in {calculateLatencySLO(resp)} :
            /\ requests' = Append(requests, Request("latency", resp))
            /\ IF r.kind = "report"
               THEN /\ reports' = Append(reports,
                          IF reports[1].Status = "Breached"
                             /\ r.report.Status = "Healthy"
                          THEN [r.report EXCEPT !.Status = "Warning"]
                          ELSE r.report)
                    /\ pc' = "output"
                    /\ UNCHANGED <<stderr, exitCode>>
               ELSE /\ stderr' = Append(stderr,
                          IF r.kind = "error"
                          THEN ErrorLine("Error calculating latency SLO", r)
                          ELSE PanicLine(r))
                    /\ exitCode' = IF r.kind = "error" THEN 1 ELSE 2
                    /\ pc' = "exited"
                    /\ UNCHANGED reports
    /\ elapsed' = 0
    /\ UNCHANGED <<output, stdout, ctxDone>>

\* A client that repeats a failed request once before giving up.
MainLatency_RetryOnce ==
    /\ UNCHANGED jobVars
    /\ pc = "latency"
    /\ \E resp \in Answers(elapsed) :
        \E r \in {calculateLatencySLO(resp)} :
            /\ IF r.kind = "report"
               THEN /\ requests' = Append(requests, Request("latency", resp))
                    /\ reports' = Append(reports, r.report)
                    /\ pc' = "output"
                    /\ UNCHANGED <<stderr, exitCode>>
               ELSE /\ requests' = Append(Append(requests,
                                                Request("latency", resp)),
                                         Request("latency", resp))
                    /\ stderr' = Append(stderr,
                          IF r.kind = "error"
                          THEN ErrorLine("Error calculating latency SLO", r)
                          ELSE PanicLine(r))
                    /\ exitCode' = IF r.kind = "error" THEN 1 ELSE 2
                    /\ pc' = "exited"
                    /\ UNCHANGED reports
    /\ elapsed' = 0
    /\ UNCHANGED <<output, stdout, ctxDone>>

\* latencyReport, err := calculateLatencySLO(ctx, client)
MainLatency ==
    /\ UNCHANGED jobVars
    /\ pc = "latency"
    /\ \E resp \in Answers(elapsed) :
        \E r \in {calculateLatencySLO(resp)} :
            /\ requests' = Append(requests, Request("latency", resp))
            /\ IF r.kind = "report"
               THEN /\ reports' = Append(reports, r.report)
                    /\ pc' = "output"
                    /\ UNCHANGED <<stderr, exitCode>>
               ELSE /\ stderr' = Append(stderr,
                          IF r.kind = "error"
                          THEN ErrorLine("Error calculating latency SLO", r)
                          ELSE PanicLine(r))
                    /\ exitCode' = IF r.kind = "error" THEN 1 ELSE 2
                    /\ pc' = "exited"
                    /\ UNCHANGED reports
    /\ elapsed' = 0
    /\ UNCHANGED <<output, stdout, ctxDone>>

\* A main that gates on the statuses: exit status 1 when an SLO is breached.
MainOutput_GateOnBreach ==
    /\ UNCHANGED jobVars
    /\ pc = "output"
    /\ \E now \in 0..MaxClock :
        IF output = "json"
        THEN \E enc \in {jsonEncode(reports)} :
                 /\ stdout' = enc.out
                 /\ stderr' = IF enc.err
                              THEN Append(stderr,
                                     [msg |-> <<"Error encoding JSON">>,
                                      code |-> 0])
                              ELSE stderr
                 /\ exitCode' =
                       IF enc.err \/ \E i \in 1..Len(reports) :
                                        reports[i].Status = "Breached"
                       THEN 1 ELSE 0
        ELSE /\ stdout' = printReport(reports, now)
             /\ exitCode' = IF \E i \in 1..Len(reports) :
                                  reports[i].Status = "Breached"
                            THEN 1 ELSE 0
             /\ UNCHANGED stderr
    /\ pc' = "exited"
    /\ UNCHANGED <<output, reports, requests, elapsed, ctxDone>>

\* reports := []*SLOReport{availabilityReport, latencyReport}, then the
\* JSON encoding or printReport; main returns and the process exits 0
\* unless the encoding failed.
MainOutput ==
    /\ UNCHANGED jobVars
    /\ pc = "output"
    /\ \E now \in 0..MaxClock :
        IF output = "json"
        THEN \E enc \in {jsonEncode(reports)} :
                 /\ stdout' = enc.out
                 /\ stderr' = IF enc.err
                              THEN Append(stderr,
                                     [msg |-> <<"Error encoding JSON">>,
                                      code |-> 0])
                              ELSE stderr
                 /\ exitCode' = IF enc.err THEN 1 ELSE 0
        ELSE /\ stdout' = printReport(reports, now)
             /\ UNCHANGED <<stderr, exitCode>>
    /\ pc' = "exited"
    /\ UNCHANGED <<output, reports, requests, elapsed, ctxDone>>

Next == MainAvailability \/ MainLatency \/ MainOutput \/ Tick

Spec == Init /\ [][Next]_vars

\* Time passes while a request waits; when the client's timer has fired the
\* pending call returns; a main that has both reports goes on to print them.
\* Nothing is assumed of the backend: it may answer in time or never.
LiveSpec ==
    /\ Init /\ [][Next]_vars
    /\ WF_vars(Tick)
    /\ WF_vars(TimedOut(elapsed) /\ (MainAvailability \/ MainLatency))
    /\ WF_vars(MainOutput)

\* The caller of calculateAvailabilitySLO and calculateLatencySLO cancels
\* the ctx it passed (or the ctx's deadline passes) before the run is over.
CancelContext ==
    /\ UNCHANGED jobVars
    /\ pc # "exited"
    /\ ~ctxDone
    /\ ctxDone' = TRUE
    /\ UNCHANGED <<pc, output, reports, requests, stdout, stderr, exitCode,
                   elapsed>>

CancelNext == Next \/ CancelContext

\* A run whose ctx can be cancelled.  Query takes ctx and calls client.Get
\* without it, so no step of the run reads ctxDone.
CancelSpec == Init /\ [][CancelNext]_vars

\* -------------------------------------------------------------------------
\* The API's createJob and the worker's processJob
\* -------------------------------------------------------------------------

\* The handler h with its fields changed.
Answered(h, code) ==
    [handlers EXCEPT ![h].pc = "answered", ![h].answer = code]

\* id := fmt.Sprintf("job_%d", time.Now().UnixNano()): a request arrives
\* and gets the id of its clock reading.
createJobStart(h) ==
    /\ handlers[h].pc = "idle"
    /\ \E id \in JobIds :
          handlers' = [handlers EXCEPT ![h].pc = "table", ![h].id = id]
    /\ UNCHANGED <<jobs, nats, worker, natsMessagesReceived, jobsProcessed,
                   jobLatency, processedLog>>
    /\ UNCHANGED reporterVars

\* CREATE TABLE IF NOT EXISTS jobs ...; an error is answered 500.
createJobTable(h) ==
    /\ handlers[h].pc = "table"
    /\ \E ok \in BOOLEAN :
          handlers' = IF ok THEN [handlers EXCEPT ![h].pc = "insert"]
                      ELSE Answered(h, 500)
    /\ UNCHANGED <<jobs, nats, worker, natsMessagesReceived, jobsProcessed,
                   jobLatency, processedLog>>
    /\ UNCHANGED reporterVars

\* A createJob whose INSERT reports success without having written a row.
createJobInsert_NoRow(h) ==
    /\ handlers[h].pc = "insert"
    /\ \E ok \in BOOLEAN :
          handlers' = IF ok
                      THEN [handlers EXCEPT ![h].pc = "publish",
                                            ![h].inserted = TRUE]
                      ELSE Answered(h, 500)
    /\ UNCHANGED <<jobs, nats, worker, natsMessagesReceived, jobsProcessed,
                   jobLatency, processedLog>>
    /\ UNCHANGED reporterVars

\* INSERT INTO jobs (id) VALUES ($1) ON CONFLICT DO NOTHING: a new row has
\* the default status 'queued', an existing row is left as it is; an error
\* is answered 500.
createJobInsert(h) ==
    /\ handlers[h].pc = "insert"
    /\ \E ok \in BOOLEAN :
          IF ok
          THEN /\ jobs' = IF jobs[handlers[h].id] = "none"
                          THEN [jobs EXCEPT ![handlers[h].id] = "queued"]
                          ELSE jobs
               /\ handlers' = [handlers EXCEPT ![h].pc = "publish",
                                               ![h].inserted = TRUE]
          ELSE /\ handlers' = Answered(h, 500)
               /\ UNCHANGED jobs
    /\ UNCHANGED <<nats, worker, natsMessagesReceived, jobsProcessed,
                   jobLatency, processedLog>>
    /\ UNCHANGED reporterVars

\* s.nats.PublishMsg on subject "jobs", then the JSON answer (status 200);
\* a publish error is answered 500.
createJobPublish(h) ==
    /\ handlers[h].pc = "publish"
    /\ \E ok \in BOOLEAN :
          IF ok
          THEN /\ nats' = Append(nats, handlers[h].id)
               /\ handlers' = [handlers EXCEPT ![h].pc = "answered",
                                               ![h].published = TRUE,
                                               ![h].answer = 200]
          ELSE /\ handlers' = Answered(h, 500)
               /\ UNCHANGED nats
    /\ UNCHANGED <<jobs, worker, natsMessagesReceived, jobsProcessed,
                   jobLatency, processedLog>>
    /\ UNCHANGED reporterVars

\* The subscription delivers the next message to processJob, which counts
\* it in nats_messages_received_total and sleeps before the UPDATE.  The
\* callbacks of one subscription run one after the other.
processJobReceive ==
    /\ worker.pc = "idle"
    /\ nats # <<>>
    /\ worker' = [pc |-> "update", id |-> Head(nats)]
    /\ nats' = Tail(nats)
    /\ natsMessagesReceived' = natsMessagesReceived + 1
    /\ UNCHANGED <<jobs, handlers, jobsProcessed, jobLatency, processedLog>>
    /\ UNCHANGED reporterVars

\* A processJob that counts the job as ok before the UPDATE and as error
\* as well when the UPDATE fails.
processJobUpdate_CountBoth ==
    /\ worker.pc = "update"
    /\ \E ok \in BOOLEAN :
          IF ok
          THEN /\ jobs' = IF jobs[worker.id] = "none" THEN jobs
                          ELSE [jobs EXCEPT ![worker.id] = "done"]
               /\ jobsProcessed' = [jobsProcessed EXCEPT !.ok = @ + 1]
               /\ jobLatency' = jobLatency + 1
               /\ processedLog' = processedLog \cup {worker.id}
          ELSE /\ jobsProcessed' = [jobsProcessed EXCEPT !.ok = @ + 1,
                                                         !.error = @ + 1]
               /\ UNCHANGED <<jobs, jobLatency, processedLog>>
    /\ worker' = [pc |-> "idle", id |-> 0]
    /\ UNCHANGED <<handlers, nats, natsMessagesReceived>>
    /\ UNCHANGED reporterVars

\* UPDATE jobs SET status='done' WHERE id=$1.  An error counts the job as
\* result=error.  Without an error - whether or not a row matched - the job
\* counts as result=ok, its duration is observed and its id is logged.
processJobUpdate ==
    /\ worker.pc = "update"
    /\ \E ok \in BOOLEAN :
          IF ok
          THEN /\ jobs' = IF jobs[worker.id] = "none" THEN jobs
                          ELSE [jobs EXCEPT ![worker.id] = "done"]
               /\ jobsProcessed' = [jobsProcessed EXCEPT !.ok = @ + 1]
               /\ jobLatency' = jobLatency + 1
               /\ processedLog' = processedLog \cup {worker.id}
          ELSE /\ jobsProcessed' = [jobsProcessed EXCEPT !.error = @ + 1]
               /\ UNCHANGED <<jobs, jobLatency, processedLog>>
    /\ worker' = [pc |-> "idle", id |-> 0]
    /\ UNCHANGED <<handlers, nats, natsMessagesReceived>>
    /\ UNCHANGED reporterVars

createJob ==
    \E h \in Handlers :
        \/ createJobStart(h)
        \/ createJobTable(h)
        \/ createJobInsert(h)
        \/ createJobPublish(h)

processJob == processJobReceive \/ processJobUpdate

JobsNext == createJob \/ processJob

\* The API serving createJob requests concurrently with the worker.
JobsSpec == Init /\ [][JobsNext]_vars

\* -------------------------------------------------------------------------
\* Properties
\* -------------------------------------------------------------------------

Exited == pc = "exited"

\* Some measurement of the run did not end with a value.
MeasurementFailed ==
    \E i \in 1..Len(requests) : requests[i].outcome.kind # "value"

\* The JSON encoding of the complete report was attempted and refused.
EncodingFailed ==
    output = "json" /\ Len(reports) = 2 /\ ~JsonEncodable(reports)

\* The backend answered 200/"success" with an empty result array.
IsNoData(resp) ==
    /\ resp.transport = "ok" /\ resp.code = 200 /\ resp.decodable
    /\ resp.status = "success" /\ Len(resp.result) = 0

\* The backend answered 200/"success" and the first series is malformed.
IsMalformedFirst(resp) ==
    /\ resp.transport = "ok" /\ resp.code = 200 /\ resp.decodable
    /\ resp.status = "success" /\ Len(resp.result) > 0
    /\ LET value == resp.result[1].value
       IN  \/ Len(value) < 2
           \/ value[2].t # "string"
           \/ ~ScanFloat(value[2].s).ok

\* main's error prefix for a query.
ErrorPrefix(query) ==
    IF query = "availability" THEN "Error calculating availability SLO"
    ELSE "Error calculating latency SLO"

\* The emitted Evaluations: the text blocks or the JSON objects on stdout,
\* each with the report it renders.
EmittedIndexes == {i \in 1..Len(stdout) : stdout[i].kind \in {"text", "json"}}
ReportOf(i) == IF stdout[i].kind = "text" THEN reports[i - 1] ELSE reports[i]
ExhaustionKeys ==
    {"ProjectedExhaustion", "projectedExhaustion", "projected_exhaustion",
     "DaysUntilExhaustion"}
HasExhaustion(item) ==
    IF item.kind = "text" THEN item.Exhaustion # <<>>
    ELSE (DOMAIN item.obj) \cap ExhaustionKeys # {}

\* C1: in every Evaluation the status is the function of the spent budget
\* the spec gives: Breached iff spent >= 1.0, Warning iff 0.8 < spent < 1.0,
\* Healthy iff spent <= 0.8.
C1_StatusTotalFunction ==
    \A i \in 1..Len(reports) :
        LET s == reports[i].ErrorBudgetSpent
            st == reports[i].Status
        IN  /\ st = "Breached" <=> FGe[s, One]
            /\ st = "Warning" <=> (FGt[s, Fin(8, 10)] /\ FLt[s, One])
            /\ st = "Healthy" <=> FLe[s, Fin(8, 10)]

C3_QueryValueFinite ==
    /\ \A i \in 1..Len(requests) :
          requests[i].outcome.kind = "value" => IsFinite(requests[i].outcome.v)
    /\ \A i \in 1..Len(reports) : IsFinite(reports[i].CurrentValue)

\* C4: when a measurement failed, nothing was written to standard output
\* and the run has ended with a non-zero exit status.
C4_AllOrNothing ==
    MeasurementFailed => (stdout = <<>> /\ Exited /\ exitCode # 0)

\* The availability measurement succeeded, the latency measurement failed,
\* and the run ended without output.
C4_Witness ==
    /\ Len(requests) = 2 /\ Len(reports) = 1
    /\ requests[2].outcome.kind = "error"
    /\ Exited /\ stdout = <<>> /\ exitCode = 1

\* C5: an empty result array makes Query return the no-data error; the run
\* ends with exit status 1, the one error line names the SLO whose query
\* had no data, no Evaluation of that SLO exists and nothing is written to
\* standard output.
C5_NoDataFails ==
    \A i \in 1..Len(requests) :
        IsNoData(requests[i].resp) =>
            /\ requests[i].outcome =
                  Error(<<"no data returned from query">>, 0)
            /\ i = Len(requests) /\ Len(reports) = i - 1
            /\ Exited /\ exitCode = 1 /\ stdout = <<>>
            /\ Len(stderr) = 1
            /\ stderr[1].msg[1] = ErrorPrefix(requests[i].query)
            /\ stderr[1].msg[Len(stderr[1].msg)] =
                  "no data returned from query"

\* The latency query had no data after a successful availability query.
C5_Witness ==
    /\ Len(requests) = 2 /\ IsNoData(requests[2].resp)
    /\ requests[2].query = "latency"
    /\ Exited /\ exitCode = 1

\* C6: Query never ends in a panic, and a 200/"success" answer whose first
\* series is malformed makes it return an error.
C6_QueryNeverPanics ==
    \A i \in 1..Len(requests) :
        /\ requests[i].outcome.kind \in {"value", "error"}
        /\ IsMalformedFirst(requests[i].resp) =>
              requests[i].outcome.kind = "error"

\* C7: once the process has exited, its exit status is non-zero exactly
\* when a measurement failed or the output encoding failed (so it is 0
\* after two successful measurements whatever the statuses), and a failed
\* measurement has left its error on standard error.
C7_ExitCode ==
    Exited =>
        /\ exitCode # 0 <=> (MeasurementFailed \/ EncodingFailed)
        /\ MeasurementFailed =>
              /\ Len(stderr) = 1
              /\ Len(stderr[1].msg) > 1

\* Both measurements succeeded, the availability SLO is Breached, and the
\* JSON run exited 0.
C7_Witness ==
    /\ Exited /\ output = "json" /\ Len(reports) = 2 /\ ~MeasurementFailed
    /\ reports[1].Status = "Breached"
    /\ exitCode = 0

\* C8 as stated: an emitted report comes with a pass signal (the exit
\* status 0) that is true iff no Evaluation is Breached.
C8_PassSignal ==
    (Exited /\ stdout # <<>>) =>
        (exitCode = 0 <=>
            \A i \in 1..Len(reports) : reports[i].Status # "Breached")

\* C8 amended: there is no aggregate pass signal: every emitted report
\* comes with exit status 0, Breached or not, and what is exposed is the
\* Status of each Evaluation, in the order of the reports.
C8_NoAggregateSignal ==
    (Exited /\ stdout # <<>>) =>
        /\ exitCode = 0
        /\ \A i \in EmittedIndexes :
              (IF stdout[i].kind = "text" THEN stdout[i].Status
               ELSE stdout[i].obj.Status) = ReportOf(i).Status

\* A text report with a Breached latency Evaluation was emitted, exit 0.
C8_Witness ==
    /\ Exited /\ output = "text" /\ stdout # <<>>
    /\ reports[2].Status = "Breached"
    /\ exitCode = 0

\* C9: in every Evaluation, spent budget + budget left = 1.
C9_SpentPlusLeftIsOne ==
    \A i \in 1..Len(reports) :
        FEq[FAdd[reports[i].ErrorBudgetSpent, reports[i].ErrorBudgetLeft],
            One]

\* C10 as stated: in every output, text or JSON, an emitted Evaluation
\* carries a projected exhaustion iff its burn rate is > 1.0.
C10_ExhaustionIffBurning ==
    \A i \in EmittedIndexes :
        HasExhaustion(stdout[i]) <=> FGt[ReportOf(i).BurnRate, One]

\* C10 amended: in the text output an Evaluation carries a projected
\* exhaustion iff its burn rate is > 1.0; in the JSON output none does.
C10_ExhaustionInTextOnly ==
    \A i \in EmittedIndexes :
        IF stdout[i].kind = "text"
        THEN HasExhaustion(stdout[i]) <=> FGt[ReportOf(i).BurnRate, One]
        ELSE ~HasExhaustion(stdout[i])

\* A text block with a projected exhaustion, next to one without.
C10_Witness ==
    \E i, j \in EmittedIndexes :
        /\ stdout[i].kind = "text" /\ HasExhaustion(stdout[i])
        /\ stdout[j].kind = "text" /\ ~HasExhaustion(stdout[j])

\* The error rate of an Evaluation (a local of the evaluators, not a field).
ErrorRateOf(report) ==
    IF report.SLI = "Availability" THEN FSub[One, report.CurrentValue]
    ELSE FSub[One, meetingSLO(report.CurrentValue)]

\* math.Min: NaN if either argument is NaN, else the smaller.
FMin(x, y) ==
    IF IsNaN(x) \/ IsNaN(y) THEN NaN ELSE IF FLt[y, x] THEN y ELSE x

C12_AvailabilityFormula ==
    \A i \in 1..Len(reports) :
        reports[i].SLI = "Availability" =>
            LET r == reports[i]
            IN  /\ r.Target = Fin(999, 1000)
                /\ r.ErrorBudget = FSub[One, r.Target]
                /\ r.ErrorBudgetSpent =
                      FDiv[FSub[One, r.CurrentValue], FSub[One, r.Target]]
                /\ r.CurrentValue = Fin(9995, 10000) =>
                      /\ FSub[One, r.CurrentValue] = Fin(5, 10000)
                      /\ r.ErrorBudgetSpent = Fin(1, 2)
                      /\ r.Status = "Healthy"

\* The Evaluation of availability 0.9995.
C12_Witness ==
    \E i \in 1..Len(reports) :
        /\ reports[i].SLI = "Availability"
        /\ reports[i].CurrentValue = Fin(9995, 10000)
        /\ reports[i].ErrorBudgetSpent = Fin(1, 2)

\* C13: the latency evaluator computes error_rate = 0 when the value is
\* <= the target, and otherwise min(0.05, ((value - target) / target) * 0.1);
\* spent = error_rate / 0.05.  Value 0.45 gives spent 0, Healthy; value 0.6
\* gives excess ratio 0.2, error rate 0.02, spent 0.4, Healthy.
C13_LatencyFormula ==
    \A i \in 1..Len(reports) :
        reports[i].SLI = "Latency (p95)" =>
            LET r == reports[i]
                cur == r.CurrentValue
                excess == FDiv[FSub[cur, r.Target], r.Target]
                capped == FMin(Fin(5, 100), FMul[excess, Fin(1, 10)])
            IN  /\ r.Target = Fin(1, 2) /\ r.ErrorBudget = Fin(5, 100)
                /\ FLe[cur, r.Target] =>
                      /\ ErrorRateOf(r) = Fin(0, 1)
                      /\ r.ErrorBudgetSpent = Fin(0, 1)
                /\ ~FLe[cur, r.Target] =>
                      /\ ErrorRateOf(r) = capped
                      /\ r.ErrorBudgetSpent = FDiv[capped, r.ErrorBudget]
                /\ cur = Fin(45, 100) =>
                      (r.ErrorBudgetSpent = Fin(0, 1) /\ r.Status = "Healthy")
                /\ cur = Fin(6, 10) =>
                      /\ excess = Fin(2, 10)
                      /\ ErrorRateOf(r) = Fin(2, 100)
                      /\ r.ErrorBudgetSpent = Fin(4, 10)
                      /\ r.Status = "Healthy"

C15_BurnRateIsSpent ==
    \A i \in 1..Len(reports) :
        reports[i].BurnRate = reports[i].ErrorBudgetSpent

\* Both Evaluations exist, with burn rates 20 and 0.4.
C15_Witness ==
    /\ Len(reports) = 2
    /\ reports[1].BurnRate = Fin(20, 1)
    /\ reports[2].BurnRate = Fin(4, 10)

\* The names of the emitted Evaluations, in the order of the output.
ItemName(item) == IF item.kind = "text" THEN item.SLO ELSE item.obj.SLI
EmittedNames ==
    LET items == SelectSeq(stdout, LAMBDA x : x.kind \in {"text", "json"})
    IN  [k \in 1..Len(items) |-> ItemName(items[k])]

\* C16: every emitted report, text or JSON, holds exactly the Availability
\* Evaluation followed by the Latency (p95) Evaluation.
C16_DeclarationOrder ==
    stdout # <<>> => EmittedNames = <<"Availability", "Latency (p95)">>

\* A text report was written.
C16_Witness ==
    /\ output = "text" /\ Len(stdout) = 3
    /\ stdout[2].kind = "text" /\ stdout[3].kind = "text"

\* C17: the queries are issued in declaration order and the run stops at
\* the first failure: the latency query is issued only after the
\* availability measurement succeeded; a failed availability measurement is
\* the run's only request and its error is what the run reports.
C17_ShortCircuit ==
    /\ \A i \in 1..Len(requests) :
          requests[i].query = IF i = 1 THEN "availability" ELSE "latency"
    /\ Len(requests) >= 2 =>
          /\ requests[1].outcome.kind = "value"
          /\ Len(reports) >= 1 /\ reports[1].SLI = "Availability"
    /\ (Len(requests) >= 1 /\ requests[1].outcome.kind # "value") =>
          /\ Len(requests) = 1 /\ Exited /\ reports = <<>> /\ stdout = <<>>
          /\ Len(stderr) = 1
          /\ requests[1].outcome.kind = "error" =>
                /\ exitCode = 1
                /\ stderr[1] =
                      [msg |-> <<ErrorPrefix("availability"),
                                 "failed to query availability">>
                                   \o requests[1].outcome.msg,
                       code |-> requests[1].outcome.code]

\* The availability measurement failed with an error and the run is over.
C17_Witness ==
    /\ Exited /\ Len(requests) = 1
    /\ requests[1].query = "availability"
    /\ requests[1].outcome.kind = "error"
    /\ exitCode = 1

\* C18: one request per call of Query: a run issues at most two requests,
\* at most one per SLO, and a request that failed is the last of the run.
C18_OneRequestPerQuery ==
    /\ Len(requests) <= 2
    /\ \A i, j \in 1..Len(requests) :
          requests[i].query = requests[j].query => i = j
    /\ \A i \in 1..Len(requests) :
          requests[i].outcome.kind # "value" => (i = Len(requests) /\ Exited)
    /\ Len(requests) = Len(reports)
          + (IF MeasurementFailed THEN 1 ELSE 0)

\* The latency request failed after the availability request succeeded.
C18_Witness ==
    /\ Exited /\ Len(requests) = 2
    /\ requests[1].outcome.kind = "value"
    /\ requests[2].query = "latency"
    /\ requests[2].outcome.kind = "error"

\* C19: every run terminates; a request the backend never answers ends,
\* when the client's timeout fires, in Query's transport error and the run
\* exits with status 1.
C19_Terminates ==
    /\ <>Exited
    /\ [](\A i \in 1..Len(requests) :
            requests[i].resp.transport = "timeout" =>
                /\ requests[i].outcome.kind = "error"
                /\ requests[i].outcome.msg = <<"failed to query Prometheus">>
                /\ Exited /\ exitCode = 1 /\ stdout = <<>>)
    /\ [](elapsed <= clientTimeout)

\* The backend never answered the latency query: the timeout ended the run.
C19_Witness ==
    /\ Exited /\ Len(requests) = 2
    /\ requests[2].resp = TimeoutResponse
    /\ exitCode = 1

\* C20 as stated: once ctx is cancelled no measurement completes with a
\* value and nothing is written to standard output.
C20_CancelStopsRun ==
    [][ctxDone => (reports' = reports /\ stdout' = stdout)]_vars

\* The Evaluation of an SLO for a measured value, by the evaluator's
\* arithmetic alone.
EvaluationOf(sli, value) ==
    IF sli = "Availability" THEN availabilityEvaluation(value)
    ELSE latencyEvaluation(value)

\* C21: an Evaluation is determined by its SLO and the measured value alone:
\* whatever the time the request took, the clock at output, the output
\* format and the Evaluation made before it, the same measured value gives
\* the same Evaluation in every field.
C21_Deterministic ==
    \A i \in 1..Len(reports) :
        /\ requests[i].outcome.kind = "value"
        /\ reports[i] = EvaluationOf(reports[i].SLI, requests[i].outcome.v)

\* Both Evaluations of a run whose availability is breached and whose
\* report was printed at the later clock reading.
C21_Witness ==
    /\ Exited /\ Len(reports) = 2 /\ output = "text" /\ Len(stdout) = 3
    /\ stdout[1].Generated = MaxClock
    /\ reports[1].Status = "Breached" /\ reports[2].Status = "Healthy"

\* C22: the evaluator does not clamp: CurrentValue is the measured value;
\* an availability above 1.0 gives a negative spent fraction and a left
\* fraction above 1; a negative availability gives a spent fraction above
\* 1 / error_budget.
C22_NoClamping ==
    \A i \in 1..Len(reports) :
        /\ reports[i].CurrentValue = requests[i].outcome.v
        /\ reports[i].SLI = "Availability" =>
              LET r == reports[i]
              IN  /\ FGt[r.CurrentValue, One] =>
                        /\ FLt[r.ErrorBudgetSpent, Fin(0, 1)]
                        /\ FGt[r.ErrorBudgetLeft, One]
                  /\ FLt[r.CurrentValue, Fin(0, 1)] =>
                        FGt[r.ErrorBudgetSpent, FDiv[One, r.ErrorBudget]]

\* A measured availability of 1.0005: spent -0.5, left 1.5.
C22_Witness ==
    \E i \in 1..Len(reports) :
        /\ reports[i].SLI = "Availability"
        /\ reports[i].CurrentValue = Fin(10005, 10000)
        /\ reports[i].ErrorBudgetSpent = Fin(-1, 2)
        /\ reports[i].ErrorBudgetLeft = Fin(3, 2)

\* README, CI/CD Integration: slo-reporter | grep -q "Healthy" on the text
\* output; the deployment proceeds when some line of it holds the marker.
GateProceeds ==
    /\ output = "text"
    /\ \E i \in 1..Len(stdout) :
          stdout[i].kind = "text" /\ stdout[i].Status = "Healthy"

\* C23: the documented gate lets the deployment proceed only when the
\* report was built and no SLO is Warning or Breached.
C23_GateBlocksUnhealthy ==
    GateProceeds =>
        /\ Len(reports) = 2
        /\ \A i \in 1..Len(reports) : reports[i].Status = "Healthy"

\* README, Alerting Integration: jq 'select(.errorBudgetSpent >= 1.0)' on
\* one object of the JSON array.  A key the object does not have reads as
\* null, and jq orders null below every number.
jqSelectBreached(obj) ==
    IF "errorBudgetSpent" \in DOMAIN obj
    THEN FGe[obj.errorBudgetSpent, One]
    ELSE FALSE

\* C24: every JSON object has the key errorBudgetSpent and the documented
\* filter selects exactly the Breached Evaluations.
C24_BreachFilter ==
    \A i \in EmittedIndexes :
        stdout[i].kind = "json" =>
            /\ "errorBudgetSpent" \in DOMAIN stdout[i].obj
            /\ jqSelectBreached(stdout[i].obj)
                  <=> (stdout[i].obj.Status = "Breached")

\* The failure class of a backend answer, in the order Query tests them.
FailureClass(resp) ==
    IF resp.transport # "ok" THEN "Unreachable"
    ELSE IF resp.code # 200 THEN "BackendRejected"
    ELSE IF ~resp.decodable \/ resp.status # "success"
    THEN "MalformedResponse"
    ELSE IF Len(resp.result) = 0 THEN "NoData"
    ELSE "None"

\* The error messages Query uses for each class.
ClassMessages(class) ==
    CASE class = "Unreachable" -> {<<"failed to query Prometheus">>}
      [] class = "BackendRejected" -> {<<"Prometheus returned status">>}
      [] class = "MalformedResponse" ->
            {<<"failed to decode response">>, <<"Prometheus query failed">>}
      [] class = "NoData" -> {<<"no data returned from query">>}
      [] OTHER -> {}

\* C25: each failure class ends Query with an error of that class and of
\* no other class, a rejection carrying the HTTP status; Query returns a
\* value only for an answer of no failure class.
C25_DistinctErrors ==
    /\ \A c, d \in {"Unreachable", "BackendRejected", "MalformedResponse",
                    "NoData"} :
          c # d => ClassMessages(c) \cap ClassMessages(d) = {}
    /\ \A i \in 1..Len(requests) :
          LET q == requests[i]
              class == FailureClass(q.resp)
          IN  /\ class # "None" =>
                    /\ q.outcome.kind = "error"
                    /\ q.outcome.msg \in ClassMessages(class)
                    /\ class = "BackendRejected" =>
                          q.outcome.code = q.resp.code
              /\ q.outcome.kind = "value" => class = "None"

\* The latency query was answered 503 and the error carries the status.
C25_Witness ==
    \E i \in 1..Len(requests) :
        /\ requests[i].resp.transport = "ok" /\ requests[i].resp.code = 503
        /\ requests[i].outcome.kind = "error"
        /\ requests[i].outcome.msg = <<"Prometheus returned status">>
        /\ requests[i].outcome.code = 503

\* The status and the spent fraction of an emitted Evaluation.
EmittedStatus(i) ==
    IF stdout[i].kind = "text" THEN stdout[i].Status ELSE stdout[i].obj.Status

\* C26 as stated: in every emitted Evaluation a reported exhaustion implies
\* Breached, and a Breached Evaluation lacks the exhaustion only when its
\* spent fraction is exactly 1.0.
C26_ExhaustionImpliesBreached ==
    \A i \in EmittedIndexes :
        /\ HasExhaustion(stdout[i]) => EmittedStatus(i) = "Breached"
        /\ (EmittedStatus(i) = "Breached" /\ ~HasExhaustion(stdout[i])) =>
              ReportOf(i).ErrorBudgetSpent = One

\* C26 amended: a reported exhaustion implies Breached; in the text output
\* a Breached Evaluation lacks the exhaustion exactly when its spent
\* fraction is 1.0; the JSON output reports no exhaustion at any status.
C26_ExhaustionImpliesBreachedInText ==
    \A i \in EmittedIndexes :
        /\ HasExhaustion(stdout[i]) => EmittedStatus(i) = "Breached"
        /\ stdout[i].kind = "text" =>
              ((EmittedStatus(i) = "Breached" /\ ~HasExhaustion(stdout[i]))
                  <=> ReportOf(i).ErrorBudgetSpent = One)
        /\ stdout[i].kind = "json" => ~HasExhaustion(stdout[i])

\* A text report with availability exactly at the target (spent 1.0,
\* Breached, no exhaustion line).
C26_Witness ==
    \E i \in EmittedIndexes :
        /\ stdout[i].kind = "text" /\ stdout[i].SLO = "Availability"
        /\ ReportOf(i).CurrentValue = Fin(999, 1000)
        /\ stdout[i].Status = "Breached" /\ stdout[i].Exhaustion = <<>>

\* C27: availability is Breached iff value <= 0.999, Warning iff
\* 0.999 < value < 0.9992, Healthy iff value >= 0.9992.
C27_AvailabilityThresholds ==
    \A i \in 1..Len(reports) :
        reports[i].SLI = "Availability" =>
            LET v == reports[i].CurrentValue
                s == reports[i].Status
            IN  /\ s = "Breached" <=> FLe[v, Fin(999, 1000)]
                /\ s = "Warning" <=>
                      (FGt[v, Fin(999, 1000)] /\ FLt[v, Fin(9992, 10000)])
                /\ s = "Healthy" <=> FGe[v, Fin(9992, 10000)]

\* C28: latency is Healthy iff p95 <= 0.7, Warning iff 0.7 < p95 < 0.75,
\* Breached iff p95 >= 0.75, and no exhaustion is reported for it.
C28_LatencyThresholds ==
    /\ \A i \in 1..Len(reports) :
          reports[i].SLI = "Latency (p95)" =>
              LET v == reports[i].CurrentValue
                  s == reports[i].Status
              IN  /\ s = "Healthy" <=> FLe[v, Fin(7, 10)]
                  /\ s = "Warning" <=>
                        (FGt[v, Fin(7, 10)] /\ FLt[v, Fin(75, 100)])
                  /\ s = "Breached" <=> FGe[v, Fin(75, 100)]
                  /\ FLe[reports[i].BurnRate, One]
    /\ \A i \in EmittedIndexes :
          ItemName(stdout[i]) = "Latency (p95)" => ~HasExhaustion(stdout[i])

\* The messages processJob has taken so far, and those createJob published.
PublishedCount == Cardinality({h \in Handlers : handlers[h].published})

\* C29: every message processJob handles is counted once as received and,
\* when processJob returns, once as ok or once as error, never both; the
\* duration is observed for the ok jobs only; between jobs
\* received = ok + error.
C29_ReceivedIsOkPlusError ==
    /\ natsMessagesReceived + Len(nats) = PublishedCount
    /\ natsMessagesReceived =
          jobsProcessed.ok + jobsProcessed.error
              + (IF worker.pc = "update" THEN 1 ELSE 0)
    /\ jobLatency = jobsProcessed.ok
    /\ worker.pc = "idle" =>
          natsMessagesReceived = jobsProcessed.ok + jobsProcessed.error

\* Two jobs were handled, one ended ok and one in error.
C29_Witness ==
    /\ worker.pc = "idle"
    /\ natsMessagesReceived = 2
    /\ jobsProcessed.ok = 1 /\ jobsProcessed.error = 1
    /\ jobLatency = 1

\* C30: every job counted ok has status 'done'; a row is 'done' only if a
\* createJob request inserted it and then published its id; no request
\* publishes before its insert, and a request is answered with success only
\* after both.
C30_OkJobsAreDone ==
    /\ \A id \in processedLog : jobs[id] = "done"
    /\ \A id \in JobIds :
          jobs[id] = "done" =>
              \E h \in Handlers :
                  /\ handlers[h].id = id
                  /\ handlers[h].inserted /\ handlers[h].published
    /\ \A h \in Handlers :
          /\ handlers[h].published => handlers[h].inserted
          /\ handlers[h].answer = 200 =>
                (handlers[h].inserted /\ handlers[h].published)
    /\ \A i \in 1..Len(nats) : jobs[nats[i]] # "none"
    /\ worker.pc = "update" => jobs[worker.id] # "none"

\* Two requests were answered with success and both jobs are done and
\* counted ok.
C30_Witness ==
    /\ \A h \in Handlers : handlers[h].answer = 200
    /\ \E h1, h2 \in Handlers : handlers[h1].id # handlers[h2].id
    /\ jobsProcessed.ok = 2
    /\ \A h \in Handlers : jobs[handlers[h].id] = "done"

====
